---- MODULE Spec2Model ----
(***************************************************************************)
(* qa_auto: the smoke-test runner (main.py) and the history store it       *)
(* shares with the dashboard (web/app.py).                                 *)
(*                                                                         *)
(* Strings the code only copies or compares for equality are TLA+ strings. *)
(* Strings the code searches or builds (page titles, the expected title    *)
(* fragment, error messages) are sequences: a title or a needle is a       *)
(* sequence of characters, an error message a sequence of text pieces in   *)
(* which the interpolated value keeps its characters.                      *)
(* Optional[str] is a sequence of length at most one: None is <<>>.        *)
(* The history file is a record: absent, unreadable, not JSON, or the JSON *)
(* value it parses to; JSON values carry their Python type in field t.     *)
(***************************************************************************)
EXTENDS Integers, Sequences, FiniteSets, TLC

VARIABLES
    cases,      \* run_all's argument
    results,    \* run_all's local list
    i,          \* position of run_all's for loop in cases, from 1
    pc,         \* where main() is: "run_all", "append", "done", "crashed"
    driverLog,  \* the page driver's attempts: <<case index, outcome>>
    clock,      \* wall clock, in milliseconds
    store,      \* history/test_history.json
    store0,     \* the history file as it was found at the start
    appends,    \* completed append_run_history calls
    lastRead,   \* what the dashboard's last get_runs returned
    sync,       \* the last sync_github request: what GitHub held, what came of it
    conc,       \* writers of the history file that run at the same time
    call,       \* the arguments of a function called on its own
    ret         \* what that call returned

vars == <<cases, results, i, pc, driverLog, clock, store, store0, appends, lastRead,
          sync, conc, call, ret>>

(* what main() and the dashboard's reads leave alone *)
elsewhere == <<sync, conc, call, ret>>

(* ---------------------------- bounds ---------------------------------- *)

MaxCases == 2

MaxAppends == 3

(* ---------------------------- values ---------------------------------- *)

None == <<>>

Some(x) == <<x>>

JList(s) == [t |-> "list", v |-> s]

JObj(r) == [t |-> "dict", v |-> r]

JNum(n) == [t |-> "int", v |-> n]

IsList(j) == j.t = "list"

IsDict(j) == j.t = "dict"

HasKey(j, k) == k \in DOMAIN j.v

Lower(c) ==
    CASE c = "E" -> "e"
      [] c = "I" -> "i"
      [] c = "D" -> "d"
      [] OTHER -> c

LowerAll(t) == [n \in 1..Len(t) |-> Lower(t[n])]

(* a comparison that ignores letter case, as `needle.lower() in title.lower()` *)
ContainsIgnoreCase(t, s) ==
    \E k \in 0..(Len(t) - Len(s)) :
        SubSeq(LowerAll(t), k + 1, k + Len(s)) = LowerAll(s)

(* s is a contiguous part of t; the empty sequence is part of every t *)
Contains(t, s) ==
    \E k \in 0..(Len(t) - Len(s)) : SubSeq(t, k + 1, k + Len(s)) = s

TestCase(id, engine, name, url, needle) ==
    [id |-> id, engine |-> engine, name |-> name, url |-> url,
     assert_title_contains |-> needle]

TestResult(case, status, started, finished, duration, title, error) ==
    [id |-> case.id, engine |-> case.engine, name |-> case.name,
     url |-> case.url, status |-> status, started_at |-> started,
     finished_at |-> finished, duration_ms |-> duration,
     title |-> title, error |-> error]

(* the cases a sheet may hold: two that name the playwright engine, two    *)
(* that do not (one differs from it only in letter case and repeats an id) *)
CaseSet ==
    { TestCase("t1", "playwright", "Home", "https://example.com", <<"E", "x">>),
      TestCase("t2", "playwright", "", "not-a-url", <<>>),
      TestCase("t3", "selenium", "Other", "https://example.org", <<"e">>),
      TestCase("t1", "Playwright", "Dup", "https://example.com", <<"x">>) }

RECURSIVE SeqsUpTo(_, _)
SeqsUpTo(S, n) ==
    IF n = 0 THEN { <<>> }
    ELSE LET shorter == SeqsUpTo(S, n - 1)
         IN  shorter \cup { Append(s, x) : s \in shorter, x \in S }

CaseLists == SeqsUpTo(CaseSet, MaxCases)

Titles == { <<>>, <<"E", "x">>, <<"e", "x">> }

Durations == { 0, 40 }

(* what one attempt of the page driver does: it returns a title, or an     *)
(* exception leaves the with-block at some stage, with str(e) = msg        *)
DriverOutcomes ==
    { [stage |-> "ok", title |-> t, msg |-> <<>>, dur |-> d] :
          t \in Titles, d \in Durations }
    \cup
    { [stage |-> "launch", title |-> <<>>,
       msg |-> <<"Executable doesn't exist">>, dur |-> d] : d \in Durations }
    \cup
    { [stage |-> "goto", title |-> <<>>,
       msg |-> <<"Timeout 30000ms exceeded.">>, dur |-> d] : d \in Durations }
    \cup
    { [stage |-> "close", title |-> t, msg |-> <<>>, dur |-> d] :
          t \in {<<"E", "x">>, <<"e", "x">>}, d \in Durations }

(* ------------------------- history file ------------------------------- *)

Absent == [kind |-> "absent", val |-> JList(<<>>)]

Unreadable == [kind |-> "unreadable", val |-> JList(<<>>)]

Malformed == [kind |-> "malformed", val |-> JList(<<>>)]

JsonFile(j) == [kind |-> "json", val |-> j]

CountStatus(rs, s) == Cardinality({ k \in 1..Len(rs) : rs[k].status = s })

(* the error count taken from the fail count *)
RunRecordMiscounted(now, rs) ==
    JObj([executed_at |-> now,
          summary |-> [pass |-> CountStatus(rs, "pass"),
                       fail |-> CountStatus(rs, "fail"),
                       error |-> CountStatus(rs, "fail")],
          results |-> rs])

RunRecord(now, rs) ==
    JObj([executed_at |-> now,
          summary |-> [pass |-> CountStatus(rs, "pass"),
                       fail |-> CountStatus(rs, "fail"),
                       error |-> CountStatus(rs, "error")],
          results |-> rs])

(* ensure_history_file: a missing file is created holding "[]" *)
ensure_history_file(f) ==
    IF f.kind = "absent" THEN JsonFile(JList(<<>>)) ELSE f

(* json.loads(HISTORY_FILE.read_text()): only a readable file of JSON text *)
(* gives a value; anything else raises                                     *)
LoadsHistory(f) == [raised |-> f.kind # "json", val |-> f.val]

(* the old-format test with its last conjunct inverted: `"results" in     *)
(* first` where `"results" not in first` is meant                          *)
IsOldFormatInverted(j) ==
    /\ IsList(j)
    /\ Len(j.v) > 0
    /\ IsDict(j.v[1])
    /\ HasKey(j.v[1], "id") /\ HasKey(j.v[1], "status")
    /\ HasKey(j.v[1], "results")

(* the old format: the first element is a dict with "id" and "status" and  *)
(* without "results"                                                       *)
IsOldFormat(j) ==
    /\ IsList(j)
    /\ Len(j.v) > 0
    /\ IsDict(j.v[1])
    /\ HasKey(j.v[1], "id") /\ HasKey(j.v[1], "status")
    /\ ~HasKey(j.v[1], "results")

(* the list `existing` that append_run_history appends to *)
Existing(f) ==
    LET got     == LoadsHistory(f)
        loaded  == IF got.raised THEN JList(<<>>) ELSE got.val
        current == IF IsOldFormat(loaded) THEN JList(<<>>) ELSE loaded
    IN  IF IsList(current) THEN current.v ELSE <<>>

(* the new record put first: existing.insert(0, run_record) *)
append_run_history_first(f, rs, now) ==
    JsonFile(JList(<<RunRecord(now, rs)>> \o Existing(ensure_history_file(f))))

(* the file append_run_history(rs) leaves behind, called at time `now` *)
append_run_history(f, rs, now) ==
    JsonFile(JList(Append(Existing(ensure_history_file(f)), RunRecord(now, rs))))

(* --------------------------- dashboard -------------------------------- *)

(* _read_json without its try/except: reading or parsing may raise *)
ReadJsonUnguarded(f, default) ==
    IF f.kind = "json" THEN [raised |-> FALSE, val |-> f.val]
    ELSE IF f.kind = "absent" THEN [raised |-> FALSE, val |-> default]
    ELSE [raised |-> TRUE, val |-> default]

(* _read_json: the default for a missing file and for any exception *)
ReadJson(f, default) ==
    IF f.kind = "json" THEN [raised |-> FALSE, val |-> f.val]
    ELSE [raised |-> FALSE, val |-> default]

get_runs(f) ==
    LET data == ReadJson(f, JList(<<>>))
    IN  [raised |-> data.raised,
         runs   |-> IF ~data.raised /\ IsList(data.val) THEN data.val.v ELSE <<>>]

(* runs[-1] if runs else None *)
get_latest_run(runs) == IF Len(runs) > 0 THEN Some(runs[Len(runs)]) ELSE None

NoRead == [op |-> "none", raised |-> FALSE, runs |-> <<>>, latest |-> None]

NoSync == [op |-> "none"]

NoWriters == [op |-> "none"]

NoCall == [fn |-> "none"]

NoReturn == [fn |-> "none"]

(* ----------------------------- engines -------------------------------- *)

SUPPORTED_ENGINE == "playwright"

(* f"Unsupported engine: {case.engine}" *)
UnsupportedMessage(engine) == <<"Unsupported engine: ", engine>>

(* "Title assertion failed. Expected to contain: '<needle>', Actual: '<title>'" *)
AssertionMessage(needle, title) ==
    <<"Title assertion failed. ", "Expected to contain: '">> \o needle
        \o <<"', ", "Actual: '">> \o title \o <<"'">>

(* the unsupported-engine result built without its error text *)
UnsupportedResultNoError(case, now) ==
    TestResult(case, "error", now, now, 0, None, None)

(* the result run_all builds itself for an engine it does not know *)
UnsupportedResult(case, now) ==
    TestResult(case, "error", now, now, 0, None,
               Some(UnsupportedMessage(case.engine)))

(* only a failure before the title is read counts: browser.close() moved   *)
(* out of the try block, its failure ignored                               *)
RaisesBeforeTitle(out) == out.stage \in {"launch", "goto"}

(* the driver's attempt leaves the try block by an exception *)
Raises(out) == out.stage # "ok"

(* an except clause that takes the navigation timeout only *)
CaughtTimeoutOnly(out) == out.stage = "goto"

(* the except clause takes every Exception the attempt raises *)
Caught(out) == Raises(out)

(* run_case_playwright, started at time `now`, the driver doing `out`:     *)
(* what it returns, or that the exception left it                          *)
run_case_playwright(case, out, now) ==
    LET finished == now + out.dur
    IN  IF Raises(out)
        THEN IF Caught(out)
             THEN [raised |-> FALSE,
                   result |-> TestResult(case, "error", now, finished, out.dur,
                                         None, Some(out.msg))]
             ELSE [raised |-> TRUE, result |-> None]
        ELSE IF ~Contains(out.title, case.assert_title_contains)
             THEN [raised |-> FALSE,
                   result |-> TestResult(case, "fail", now, finished, out.dur,
                       Some(out.title),
                       Some(AssertionMessage(case.assert_title_contains, out.title)))]
             ELSE [raised |-> FALSE,
                   result |-> TestResult(case, "pass", now, finished, out.dur,
                                         Some(out.title), None)]

(* ------------------------------ runner -------------------------------- *)

(* an engine test that ignores letter case *)
DispatchesAnyCase(case) == case.engine \in {"playwright", "Playwright"}

Dispatches(case) == case.engine = SUPPORTED_ENGINE

(* the unsupported-engine branch without its `continue`: the case goes on *)
(* to the driver and gets a second result                                  *)
RunCaseUnsupportedNoContinue ==
    /\ pc = "run_all"
    /\ i <= Len(cases)
    /\ ~(cases[i].engine = SUPPORTED_ENGINE)
    /\ \E out \in DriverOutcomes :
          /\ results' = Append(Append(results, UnsupportedResult(cases[i], clock)),
                               run_case_playwright(cases[i], out, clock).result)
          /\ driverLog' = Append(driverLog, <<i, out>>)
          /\ clock' = clock + out.dur
    /\ i' = i + 1
    /\ UNCHANGED <<cases, pc, store, store0, appends, lastRead>>
    /\ UNCHANGED elsewhere

(* one pass of run_all's loop over a case of another engine *)
RunCaseUnsupported ==
    /\ pc = "run_all"
    /\ i <= Len(cases)
    /\ ~Dispatches(cases[i])
    /\ results' = Append(results, UnsupportedResult(cases[i], clock))
    /\ i' = i + 1
    /\ UNCHANGED <<cases, pc, driverLog, clock, store, store0, appends, lastRead>>
    /\ UNCHANGED elsewhere

(* one pass of run_all's loop over a playwright case *)
RunCasePlaywright ==
    /\ pc = "run_all"
    /\ i <= Len(cases)
    /\ Dispatches(cases[i])
    /\ \E out \in DriverOutcomes :
          LET r == run_case_playwright(cases[i], out, clock)
          IN  /\ driverLog' = Append(driverLog, <<i, out>>)
              /\ clock' = clock + out.dur
              /\ IF r.raised
                 THEN /\ pc' = "crashed"
                      /\ UNCHANGED <<results, i>>
                 ELSE /\ results' = Append(results, r.result)
                      /\ i' = i + 1
                      /\ pc' = pc
    /\ UNCHANGED <<cases, store, store0, appends, lastRead>>
    /\ UNCHANGED elsewhere

(* run_all returns its list to main *)
RunAllReturn ==
    /\ pc = "run_all"
    /\ i > Len(cases)
    /\ pc' = "append"
    /\ UNCHANGED <<cases, results, i, driverLog, clock, store, store0, appends, lastRead>>
    /\ UNCHANGED elsewhere

(* main's append_run_history(results) *)
AppendRunHistory ==
    /\ pc = "append"
    /\ store' = append_run_history(store, results, clock)
    /\ appends' = appends + 1
    /\ pc' = "done"
    /\ lastRead' = NoRead
    /\ UNCHANGED <<cases, results, i, driverLog, clock, store0>>
    /\ UNCHANGED elsewhere

(* ----------------------- the files main may find ---------------------- *)

SampleCase == TestCase("t1", "playwright", "Home", "https://example.com", <<"E", "x">>)

SamplePass == TestResult(SampleCase, "pass", 0, 0, 0, Some(<<"E", "x">>), None)

SampleError == TestResult(SampleCase, "error", 0, 0, 0, None, Some(<<"boom">>))

InitStores ==
    { Absent, Unreadable, Malformed,
      JsonFile(JObj([note |-> 1])),
      JsonFile(JList(<<>>)),
      JsonFile(JList(<<RunRecord(0, <<SamplePass>>)>>)),
      JsonFile(JList(<<RunRecord(0, <<>>), RunRecord(0, <<SamplePass, SampleError>>)>>)),
      JsonFile(JList(<<JObj(SamplePass)>>)),
      JsonFile(JList(<<JObj(SampleError), JObj(SamplePass)>>)),
      JsonFile(JList(<<JObj(SamplePass), RunRecord(0, <<SamplePass>>)>>)),
      JsonFile(JList(<<JNum(7)>>)) }

Init ==
    /\ cases \in CaseLists
    /\ results = <<>>
    /\ i = 1
    /\ pc = "run_all"
    /\ driverLog = <<>>
    /\ clock = 0
    /\ store \in InitStores
    /\ store0 = store
    /\ appends = 0
    /\ lastRead = NoRead
    /\ sync = NoSync
    /\ conc = NoWriters
    /\ call = NoCall
    /\ ret = NoReturn

Next ==
    \/ RunCaseUnsupported
    \/ RunCasePlaywright
    \/ RunAllReturn
    \/ AppendRunHistory

Spec == Init /\ [][Next]_vars

(* main.py is one sequential process: a step that can be taken is taken    *)
(* (page.goto is bounded by its 30 s timeout)                              *)
FairSpec == Spec /\ WF_vars(Next)

(* ------------------- successive runs and the dashboard ---------------- *)

(* run_all as a whole, from case k on: st holds its list, the clock and    *)
(* the driver's attempts, and whether an exception left the loop           *)
RECURSIVE RunAllFrom(_, _, _, _)
RunAllFrom(cs, outs, k, st) ==
    IF k > Len(cs) \/ st.crashed THEN st
    ELSE IF ~Dispatches(cs[k])
    THEN RunAllFrom(cs, outs, k + 1,
             [st EXCEPT !.results = Append(@, UnsupportedResult(cs[k], st.clock))])
    ELSE LET r == run_case_playwright(cs[k], outs[k], st.clock)
             tried == [st EXCEPT !.log = Append(@, <<k, outs[k]>>),
                                 !.clock = @ + outs[k].dur]
         IN  IF r.raised
             THEN [tried EXCEPT !.crashed = TRUE]
             ELSE RunAllFrom(cs, outs, k + 1,
                      [tried EXCEPT !.results = Append(@, r.result)])

run_all(cs, outs, now) ==
    RunAllFrom(cs, outs, 1,
               [results |-> <<>>, clock |-> now, log |-> <<>>, crashed |-> FALSE])

OkOutcome(title) == [stage |-> "ok", title |-> title, msg |-> <<>>, dur |-> 40]

TimeoutOutcome ==
    [stage |-> "goto", title |-> <<>>, msg |-> <<"Timeout 30000ms exceeded.">>, dur |-> 40]

(* the suites and driver behaviours of the successive runs: an empty       *)
(* sheet, a pass with an unsupported engine, a fail with a driver error    *)
SampleRuns ==
    { [cases |-> <<>>, outs |-> <<>>],
      [cases |-> <<SampleCase,
                   TestCase("t3", "selenium", "Other", "https://example.org", <<"e">>)>>,
       outs  |-> <<OkOutcome(<<"E", "x">>), TimeoutOutcome>>],
      [cases |-> <<SampleCase,
                   TestCase("t2", "playwright", "", "not-a-url", <<>>)>>,
       outs  |-> <<OkOutcome(<<"e", "x">>), TimeoutOutcome>>] }

(* one whole main(): run_all, then append_run_history *)
Main ==
    /\ appends < MaxAppends
    /\ \E run \in SampleRuns :
          LET st == run_all(run.cases, run.outs, clock)
          IN  /\ cases' = run.cases
              /\ results' = st.results
              /\ i' = Len(st.results) + 1
              /\ driverLog' = st.log
              /\ clock' = st.clock
              /\ IF st.crashed
                 THEN /\ pc' = "crashed"
                      /\ UNCHANGED <<store, appends>>
                 ELSE /\ pc' = "done"
                      /\ store' = append_run_history(store, st.results, st.clock)
                      /\ appends' = appends + 1
    /\ lastRead' = NoRead
    /\ UNCHANGED store0
    /\ UNCHANGED elsewhere

(* the dashboard reads the history: get_runs and its latest run *)
GetRuns ==
    /\ LET got == get_runs(store)
       IN  lastRead' = [op |-> "get_runs", raised |-> got.raised, runs |-> got.runs,
                        latest |-> get_latest_run(got.runs)]
    /\ UNCHANGED <<cases, results, i, pc, driverLog, clock, store, store0, appends>>
    /\ UNCHANGED elsewhere

InitHistory ==
    /\ cases = <<>>
    /\ results = <<>>
    /\ i = 1
    /\ pc = "done"
    /\ driverLog = <<>>
    /\ clock = 0
    /\ store \in InitStores
    /\ store0 = store
    /\ appends = 0
    /\ lastRead = NoRead
    /\ sync = NoSync
    /\ conc = NoWriters
    /\ call = NoCall
    /\ ret = NoReturn

NextHistory ==
    \/ Main
    \/ GetRuns

SpecHistory == InitHistory /\ [][NextHistory]_vars

(* ============================ properties ============================== *)

Returned == pc \in {"append", "done"}

Carries(r, c) ==
    r.id = c.id /\ r.engine = c.engine /\ r.name = c.name /\ r.url = c.url

Attempts(k) == { n \in 1..Len(driverLog) : driverLog[n][1] = k }

(* C1: run_all returns exactly one result per case, in input order: the    *)
(* k-th result carries the id, engine, name and url of the k-th case, and  *)
(* the returned list is as long as the case list.                          *)
C1_OneResultPerCaseInOrder ==
    /\ Len(results) <= Len(cases)
    /\ \A k \in 1..Len(results) : Carries(results[k], cases[k])
    /\ Returned => Len(results) = Len(cases)

C1_Witness ==
    /\ pc = "append"
    /\ Len(cases) = 2
    /\ cases[1].id # cases[2].id
    /\ results[1].status = "error" /\ results[1].title = None
    /\ results[2].status = "pass"

(* C2 (safety part): a case for which the driver raised has an error       *)
(* result, run_all is never left by the exception, and when run_all has    *)
(* returned every playwright case was attempted exactly once and every     *)
(* case has its result.                                                    *)
Isolated ==
    /\ pc # "crashed"
    /\ \A n \in 1..Len(driverLog) :
          LET k == driverLog[n][1]
          IN  /\ k <= Len(results)
              /\ driverLog[n][2].stage # "ok" => results[k].status = "error"
    /\ \A k \in 1..Len(cases) : Cardinality(Attempts(k)) <= 1
    /\ Returned =>
          /\ Len(results) = Len(cases)
          /\ \A k \in 1..Len(cases) :
                cases[k].engine = "playwright" => Cardinality(Attempts(k)) = 1

(* C2: per-case failure isolation: whatever the driver raises, the suite   *)
(* is not aborted and always reaches completion with a result per case.    *)
C2_FailureIsolation == [](Isolated) /\ <>(pc = "done" /\ Len(results) = Len(cases))

C2_Witness ==
    /\ pc = "done"
    /\ Len(driverLog) = 2
    /\ driverLog[1][2].stage = "goto"
    /\ driverLog[2][2].stage = "ok"
    /\ results[1].status = "error"
    /\ results[2].status = "fail"

(* C3: a case whose engine is not "playwright" gets status error, the      *)
(* error "Unsupported engine: <engine>", duration_ms 0 and no title, and   *)
(* the page driver is not invoked for it.                                  *)
C3_UnsupportedEngine ==
    \A k \in 1..Len(results) :
        cases[k].engine # "playwright" =>
            /\ results[k].status = "error"
            /\ results[k].error = << <<"Unsupported engine: ", cases[k].engine>> >>
            /\ results[k].duration_ms = 0
            /\ results[k].title = <<>>
            /\ Attempts(k) = {}

C3_Witness ==
    /\ Len(results) = 2
    /\ cases[1].engine = "Playwright"
    /\ cases[2].engine = "playwright"
    /\ Len(driverLog) = 1

(* s occurs in t: t is some prefix, then s, then some suffix *)
Within(s, t) ==
    \E a \in 0..Len(t) : \E b \in a..Len(t) :
        /\ b - a = Len(s)
        /\ \A n \in 1..Len(s) : t[a + n] = s[n]

(* C4: when the driver returned title t, the status is pass exactly when   *)
(* assert_title_contains occurs in t letter for letter, and fail           *)
(* otherwise; an empty assert_title_contains passes; title is t; a pass    *)
(* has no error and a fail has an error that holds the needle and t.       *)
C4_TitleAssertion ==
    \A n \in 1..Len(driverLog) :
        LET k      == driverLog[n][1]
            out    == driverLog[n][2]
            needle == cases[k].assert_title_contains
        IN  (out.stage = "ok" /\ k <= Len(results)) =>
                /\ results[k].status = IF Within(needle, out.title) THEN "pass" ELSE "fail"
                /\ needle = <<>> => results[k].status = "pass"
                /\ results[k].title = <<out.title>>
                /\ results[k].status = "pass" => results[k].error = <<>>
                /\ results[k].status = "fail" =>
                      /\ Len(results[k].error) = 1
                      /\ Within(needle, results[k].error[1])
                      /\ Within(out.title, results[k].error[1])

C4_Witness ==
    /\ Len(results) = 2
    /\ Len(driverLog) = 2
    /\ cases[1].assert_title_contains = <<"E", "x">>
    /\ driverLog[1][2].stage = "ok" /\ driverLog[1][2].title = <<"e", "x">>
    /\ results[1].status = "fail"
    /\ cases[2].assert_title_contains = <<>>
    /\ driverLog[2][2].stage = "ok" /\ driverLog[2][2].title = <<>>
    /\ results[2].status = "pass"

(* C5: every result of run_all has status pass, fail or error; a pass has  *)
(* no error and a title, a fail an error and a title, an error an error.   *)
C5_OutcomeInvariant ==
    \A k \in 1..Len(results) :
        LET r == results[k]
        IN  /\ r.status \in {"pass", "fail", "error"}
            /\ r.status = "pass" => (r.error = <<>> /\ Len(r.title) = 1)
            /\ r.status = "fail" => (Len(r.error) = 1 /\ Len(r.title) = 1)
            /\ r.status = "error" => Len(r.error) = 1

C5_Witness ==
    /\ Len(results) = 2
    /\ results[1].status = "fail"
    /\ results[2].status = "error"
    /\ results[2].error = << <<>> >>

(* a JSON list of run records: each a dict with executed_at, summary and   *)
(* results                                                                 *)
WellFormedRuns(f) ==
    /\ f.kind = "json"
    /\ f.val.t = "list"
    /\ \A k \in 1..Len(f.val.v) :
          /\ f.val.v[k].t = "dict"
          /\ {"executed_at", "summary", "results"} \subseteq DOMAIN f.val.v[k].v

(* a dict shaped like a result: "id" and "status", no "results" *)
ResultShaped(j) ==
    /\ j.t = "dict"
    /\ {"id", "status"} \subseteq DOMAIN j.v
    /\ "results" \notin DOMAIN j.v

(* the legacy file: a non-empty JSON list of result-shaped dicts *)
LegacyList(f) ==
    /\ f.kind = "json"
    /\ f.val.t = "list"
    /\ Len(f.val.v) > 0
    /\ \A k \in 1..Len(f.val.v) : ResultShaped(f.val.v[k])

(* a JSON list that starts with a result-shaped dict *)
StartsLegacy(f) ==
    /\ f.kind = "json"
    /\ f.val.t = "list"
    /\ Len(f.val.v) > 0
    /\ ResultShaped(f.val.v[1])

(* C6: from a well-formed list of N run records, k appends leave the file  *)
(* a list of N + k records: the N old ones first, unchanged and in their   *)
(* order, then one run record per append, oldest first, the last of them   *)
(* being the run just appended.                                            *)
C6_AppendOnly ==
    WellFormedRuns(store0) =>
        LET N == Len(store0.val.v)
        IN  /\ store.kind = "json"
            /\ store.val.t = "list"
            /\ Len(store.val.v) = N + appends
            /\ \A k \in 1..N : store.val.v[k] = store0.val.v[k]
            /\ \A k \in (N + 1)..(N + appends) :
                  /\ store.val.v[k].t = "dict"
                  /\ "results" \in DOMAIN store.val.v[k].v
            /\ \A k \in (N + 1)..(N + appends - 1) :
                  store.val.v[k].v.executed_at <= store.val.v[k + 1].v.executed_at
            /\ (appends > 0 /\ pc = "done") =>
                  /\ store.val.v[N + appends].v.results = results
                  /\ store.val.v[N + appends].v.executed_at = clock

C6_Witness ==
    /\ WellFormedRuns(store0)
    /\ Len(store0.val.v) = 2
    /\ appends = 2
    /\ Len(results) = 2

RECURSIVE Tally(_, _)
Tally(rs, s) ==
    IF rs = <<>> THEN 0
    ELSE (IF Head(rs).status = s THEN 1 ELSE 0) + Tally(Tail(rs), s)

(* C7: the run record append_run_history writes has a summary whose pass,  *)
(* fail and error counts are the numbers of its results with that status   *)
(* and add up to the number of its results.                                *)
C7_SummaryPartition ==
    pc = "done" =>
        LET written == store.val.v[Len(store.val.v)].v
        IN  /\ written.results = results
            /\ written.summary.pass = Tally(written.results, "pass")
            /\ written.summary.fail = Tally(written.results, "fail")
            /\ written.summary.error = Tally(written.results, "error")
            /\ written.summary.pass + written.summary.fail + written.summary.error
                   = Len(written.results)

C7_Witness ==
    /\ pc = "done"
    /\ Len(results) = 2
    /\ store.val.v[Len(store.val.v)].v.summary = [pass |-> 1, fail |-> 0, error |-> 1]

(* C8: from a legacy list of N entries (its first element result-shaped),  *)
(* the first append leaves exactly one record, the new run; no legacy      *)
(* entry survives, and k appends leave k records.                          *)
C8_LegacyDiscardedOnAppend ==
    (StartsLegacy(store0) /\ appends >= 1) =>
        /\ store.kind = "json"
        /\ store.val.t = "list"
        /\ Len(store.val.v) = appends
        /\ \A k \in 1..Len(store.val.v) :
              /\ ~ResultShaped(store.val.v[k])
              /\ {"executed_at", "summary", "results"} \subseteq DOMAIN store.val.v[k].v
        /\ pc = "done" => store.val.v[appends].v.results = results

C8_Witness ==
    /\ LegacyList(store0)
    /\ Len(store0.val.v) = 2
    /\ appends = 1
    /\ Len(store.val.v) = 1
    /\ Len(results) = 2

(* C9: when the file holds a legacy list of result dicts, get_runs returns *)
(* the empty sequence and the latest run is None.                          *)
C9_LegacyReadsEmpty ==
    (lastRead.op = "get_runs" /\ LegacyList(store)) =>
        (lastRead.runs = <<>> /\ lastRead.latest = <<>>)

ReadAnswers ==
    lastRead.op = "get_runs" =>
        /\ ~lastRead.raised
        /\ lastRead.runs =
              IF store.kind = "json" /\ store.val.t = "list" THEN store.val.v ELSE <<>>

(* C10: get_runs never raises and never changes the file: it returns the   *)
(* empty sequence for a file that is absent, unreadable, not JSON or not a *)
(* JSON list, and the stored list otherwise.                               *)
C10_ReadAllTotal ==
    [](ReadAnswers) /\ [][lastRead'.op = "get_runs" => store' = store]_vars

C10_Witness ==
    /\ lastRead.op = "get_runs"
    /\ store.kind = "malformed"
    /\ lastRead.runs = <<>>

(* C16: an exception at any point of the attempt, the browser's teardown   *)
(* after the title was read and compared included, gives status error,     *)
(* error = str(e) and title None, and the case is attempted once only.     *)
C16_DriverFailure ==
    \A n \in 1..Len(driverLog) :
        LET k   == driverLog[n][1]
            out == driverLog[n][2]
        IN  (out.stage \in {"launch", "goto", "close"} /\ k <= Len(results)) =>
                /\ results[k].status = "error"
                /\ results[k].error = <<out.msg>>
                /\ results[k].title = <<>>
                /\ Cardinality(Attempts(k)) = 1

C16_Witness ==
    /\ pc = "done"
    /\ Len(driverLog) = 2
    /\ driverLog[1][2].stage = "close" /\ driverLog[1][2].title = <<"E", "x">>
    /\ cases[1].assert_title_contains = <<"E", "x">>
    /\ driverLog[2][2].stage = "close" /\ driverLog[2][2].title = <<"e", "x">>
    /\ cases[2].assert_title_contains = <<"E", "x">>
    /\ results[1].status = "error" /\ results[2].status = "error"

(* ======================= GitHub artifact sync ========================= *)

MaxArtifacts == 2

(* a member of the downloaded zip: its name and its bytes, which are       *)
(* undecodable, not JSON, or the text of a JSON value (as a file is)       *)
Member(name, body) == [name |-> name, body |-> body]

RemoteRuns == <<RunRecord(7, <<SampleError>>)>>

Bodies ==
    { Unreadable, Malformed,
      JsonFile(JObj([note |-> 1])),
      JsonFile(JList(<<>>)),
      JsonFile(JList(RemoteRuns)),
      JsonFile(JList(<<JObj(SamplePass)>>)) }

(* what requests.get(archive_url) meets: no answer in time, a status that  *)
(* is not 200, bytes that are no zip, or a zip with its members in order   *)
Archive(resp, status, zip, entries) ==
    [resp |-> resp, status |-> status, zip |-> zip, entries |-> entries]

Archives ==
    { Archive("timeout", 0, "none", <<>>),
      Archive("http", 404, "none", <<>>),
      Archive("http", 200, "notzip", <<>>),
      Archive("http", 200, "zip", <<Member("readme.txt", Malformed)>>),
      Archive("http", 200, "zip",
              <<Member("logs/test_history.json", JsonFile(JList(<<>>))),
                Member("test_history.json", JsonFile(JList(RemoteRuns)))>>) }
    \cup
    { Archive("http", 200, "zip", <<Member("history/test_history.json", b)>>) :
          b \in Bodies }

Artifact(name, expired, updated, url, archive) ==
    [name |-> name, expired |-> expired, updated_at |-> updated,
     has_url |-> url, archive |-> archive]

GoodArchive(runs) ==
    Archive("http", 200, "zip", <<Member("history/test_history.json", JsonFile(JList(runs)))>>)

(* the artifacts GitHub may list; updated_at is a time, compared as the    *)
(* ISO strings of one format compare                                       *)
Artifacts ==
    { Artifact("test-history", FALSE, 2, TRUE, a) : a \in Archives }
    \cup
    { Artifact("test-history", FALSE, 1, TRUE, GoodArchive(RemoteRuns)),
      Artifact("test-history", FALSE, 3, TRUE, GoodArchive(<<>>)),
      Artifact("test-history", TRUE, 3, TRUE, GoodArchive(RemoteRuns)),
      Artifact("logs", FALSE, 3, TRUE, GoodArchive(RemoteRuns)),
      Artifact("test-history", FALSE, 3, FALSE, GoodArchive(RemoteRuns)) }

(* the environment of one sync: whether GITHUB_OWNER, GITHUB_REPO and      *)
(* GITHUB_TOKEN are set, and what the artifacts request meets              *)
Remote(configured, resp, status, artifacts) ==
    [configured |-> configured, resp |-> resp, status |-> status,
     artifacts |-> artifacts]

RemotesOver(listings) ==
    { Remote(FALSE, "http", 200, <<>>),
      Remote(TRUE, "timeout", 0, <<>>),
      Remote(TRUE, "http", 403, <<>>) }
    \cup { Remote(TRUE, "http", 200, l) : l \in listings }

Remotes == RemotesOver(SeqsUpTo(Artifacts, MaxArtifacts))

(* the positions in the listing of the artifacts named test-history that   *)
(* are not expired, in listing order                                       *)
RECURSIVE CandidatesFrom(_, _)
CandidatesFrom(artifacts, k) ==
    IF k > Len(artifacts) THEN <<>>
    ELSE (IF artifacts[k].name = "test-history" /\ ~artifacts[k].expired
          THEN <<k>> ELSE <<>>) \o CandidatesFrom(artifacts, k + 1)

Candidates(artifacts) == CandidatesFrom(artifacts, 1)

(* x put ahead of the entries with the same updated_at: an unstable sort,   *)
(* or `max` taken over the reversed list                                   *)
InsertDescendingUnstable(artifacts, sorted, x) ==
    LET ahead == { n \in 1..Len(sorted) :
                     artifacts[sorted[n]].updated_at > artifacts[x].updated_at }
        cut   == Cardinality(ahead)
    IN  SubSeq(sorted, 1, cut) \o <<x>> \o SubSeq(sorted, cut + 1, Len(sorted))

(* x put into a list sorted by updated_at, greatest first, behind the      *)
(* entries that are not smaller                                            *)
InsertDescending(artifacts, sorted, x) ==
    LET ahead == { n \in 1..Len(sorted) :
                     artifacts[sorted[n]].updated_at >= artifacts[x].updated_at }
        cut   == Cardinality(ahead)
    IN  SubSeq(sorted, 1, cut) \o <<x>> \o SubSeq(sorted, cut + 1, Len(sorted))

(* candidates.sort(key=updated_at, reverse=True): a stable sort, so equal  *)
(* keys keep their listing order                                           *)
RECURSIVE SortDescending(_, _, _)
SortDescending(artifacts, cands, sorted) ==
    IF cands = <<>> THEN sorted
    ELSE SortDescending(artifacts, Tail(cands),
                        InsertDescending(artifacts, sorted, Head(cands)))

Latest(artifacts) == SortDescending(artifacts, Candidates(artifacts), <<>>)[1]

EndsWithHistoryName(name) ==
    name \in {"history/test_history.json", "test_history.json", "logs/test_history.json"}

FirstIndex(entries, name) ==
    CHOOSE n \in 1..Len(entries) :
        /\ entries[n].name = name
        /\ \A m \in 1..(n - 1) : entries[m].name # name

(* the member the sync reads: history/test_history.json, else             *)
(* test_history.json, else the first name ending in test_history.json;     *)
(* 0 when there is none                                                    *)
Target(entries) ==
    LET names == { entries[n].name : n \in 1..Len(entries) }
        ending == { n \in 1..Len(entries) : EndsWithHistoryName(entries[n].name) }
    IN  IF "history/test_history.json" \in names
        THEN FirstIndex(entries, "history/test_history.json")
        ELSE IF "test_history.json" \in names
        THEN FirstIndex(entries, "test_history.json")
        ELSE IF ending # {}
        THEN CHOOSE n \in ending : \A m \in ending : n <= m
        ELSE 0

JNull == [t |-> "null", v |-> 0]

Failed(diagnostic, chosen) ==
    [raised |-> FALSE, fault |-> "", data |-> JNull, err |-> Some(diagnostic),
     chosen |-> chosen]

Faulted(fault, chosen) ==
    [raised |-> TRUE, fault |-> fault, data |-> JNull, err |-> None,
     chosen |-> chosen]

Fetched(data, chosen) ==
    [raised |-> FALSE, fault |-> "", data |-> data, err |-> None, chosen |-> chosen]

(* requests.get gets no answer within its timeout: requests raises, and    *)
(* nothing in the function catches it                                      *)
TimesOut(response) == Faulted("requests.exceptions.Timeout", 0)

(* fetch_latest_test_history_from_github: (data, None), (None, message),   *)
(* or an exception that leaves it; chosen is the listing position of the   *)
(* artifact it took                                                        *)
fetch_latest_test_history_from_github(rem) ==
    IF ~rem.configured THEN Failed("MissingConfig", 0)
    ELSE IF rem.resp = "timeout" THEN TimesOut(rem)
    ELSE IF rem.status # 200 THEN Failed("ListFailed", 0)
    ELSE IF Candidates(rem.artifacts) = <<>> THEN Failed("NotFound", 0)
    ELSE
    LET k       == Latest(rem.artifacts)
        latest  == rem.artifacts[k]
        z       == latest.archive
        target  == Target(z.entries)
        body    == z.entries[target].body
    IN  IF ~latest.has_url THEN Failed("NoArchiveUrl", k)
        ELSE IF z.resp = "timeout" THEN [TimesOut(z) EXCEPT !.chosen = k]
        ELSE IF z.status # 200 THEN Failed("DownloadFailed", k)
        ELSE IF z.zip # "zip" THEN Faulted("zipfile.BadZipFile", k)
        ELSE IF target = 0 THEN Failed("MemberNotFound", k)
        ELSE IF body.kind = "unreadable" THEN Faulted("UnicodeDecodeError", k)
        ELSE IF body.kind # "json" THEN Failed("ParseFailed", k)
        ELSE IF ~IsList(body.val) THEN Failed("SchemaMismatch", k)
        ELSE Fetched(body.val, k)

(* the function called on its own with what GitHub holds *)
CallFetch ==
    /\ call.fn = "fetch_latest_test_history_from_github"
    /\ ret = NoReturn
    /\ ret' = [fn |-> call.fn, out |-> fetch_latest_test_history_from_github(call.rem)]
    /\ UNCHANGED <<cases, results, i, pc, driverLog, clock, store, store0, appends,
                   lastRead, sync, conc, call>>

InitFetch ==
    /\ cases = <<>>
    /\ results = <<>>
    /\ i = 1
    /\ pc = "done"
    /\ driverLog = <<>>
    /\ clock = 0
    /\ store = Absent
    /\ store0 = store
    /\ appends = 0
    /\ lastRead = NoRead
    /\ sync = NoSync
    /\ conc = NoWriters
    /\ \E rem \in Remotes :
          call = [fn |-> "fetch_latest_test_history_from_github", rem |-> rem]
    /\ ret = NoReturn

NextFetch == CallFetch

SpecFetch == InitFetch /\ [][NextFetch]_vars

FetchReturned == ret.fn = "fetch_latest_test_history_from_github"

Listed == call.rem.configured /\ call.rem.resp = "http" /\ call.rem.status = 200

Eligible ==
    { k \in 1..Len(call.rem.artifacts) :
        /\ call.rem.artifacts[k].name = "test-history"
        /\ call.rem.artifacts[k].expired = FALSE }

(* C17: of the listed artifacts named test-history and not expired, the    *)
(* sync takes one with the greatest updated_at, and of several with the    *)
(* greatest the first in the listing; it takes no other artifact, and      *)
(* with none eligible it returns the NotFound diagnostic.                  *)
C17_LatestArtifact ==
    (FetchReturned /\ Listed) =>
        IF Eligible = {}
        THEN ret.out.err = <<"NotFound">> /\ ret.out.chosen = 0 /\ ~ret.out.raised
        ELSE /\ ret.out.chosen \in Eligible
             /\ \A m \in Eligible :
                  LET mine   == call.rem.artifacts[ret.out.chosen].updated_at
                      theirs == call.rem.artifacts[m].updated_at
                  IN  /\ theirs <= mine
                      /\ theirs = mine => ret.out.chosen <= m

C17_Witness ==
    /\ FetchReturned
    /\ Listed
    /\ Len(call.rem.artifacts) = 2
    /\ Eligible = {1, 2}
    /\ call.rem.artifacts[1].updated_at = call.rem.artifacts[2].updated_at
    /\ call.rem.artifacts[1].archive = GoodArchive(<<>>)
    /\ call.rem.artifacts[2].archive = GoodArchive(RemoteRuns)
    /\ ret.out.chosen = 1
    /\ ret.out.data = JList(<<>>)

(* C18: whatever goes wrong in a sync step, the caller gets a diagnostic   *)
(* value and no exception: a timeout of the listing or of the download, an *)
(* archive that is no zip and a member that cannot be decoded included.    *)
C18_FailuresAreDiagnostics ==
    FetchReturned =>
        /\ ~ret.out.raised
        /\ (call.rem.configured /\ call.rem.resp = "timeout") =>
              ret.out.err = <<"ListFailed">>

(* ------------------------ sync and the history file ------------------ *)

(* a write that keeps what the file held and adds the remote runs *)
save_merging(f, history_data) ==
    IF IsList(history_data)
    THEN JsonFile(JList(Existing(f) \o history_data.v))
    ELSE JsonFile(history_data)

(* save_github_history_to_local: the file is rewritten with the value given *)
save_github_history_to_local(f, history_data) == JsonFile(history_data)

(* the write done before the error test *)
sync_github_unchecked(f, out) ==
    IF out.raised THEN f ELSE save_github_history_to_local(f, out.data)

(* sync_github: the file after the request, `out` being what the fetch     *)
(* did: an exception leaves the handler, a message is flashed, or the data *)
(* is saved                                                                *)
sync_github(f, out) ==
    IF out.raised THEN f
    ELSE IF out.err # None THEN f
    ELSE save_github_history_to_local(f, out.data)

(* every way the fetch can end is met with at most one artifact listed *)
SyncRemotes == RemotesOver(SeqsUpTo(Artifacts, 1))

(* what the fetch does over those remotes *)
SyncFetches == {fetch_latest_test_history_from_github(rem) : rem \in SyncRemotes}

(* POST /sync_github *)
SyncGithub ==
    /\ \E out \in SyncFetches :
          /\ store' = sync_github(store, out)
          /\ sync' = [op |-> "sync_github", raised |-> out.raised, err |-> out.err,
                      data |-> out.data, at |-> appends]
    /\ lastRead' = NoRead
    /\ UNCHANGED <<cases, results, i, pc, driverLog, clock, store0, appends,
                   conc, call, ret>>

NextSync ==
    \/ Main
    \/ SyncGithub

SpecSync == InitHistory /\ [][NextSync]_vars

SyncFailed(s) == s.op = "sync_github" /\ (s.raised \/ s.err # <<>>)

SyncSucceeded(s) == s.op = "sync_github" /\ ~s.raised /\ s.err = <<>>

(* C11: a sync whose fetch ends in a failure leaves the history file as it *)
(* was.                                                                    *)
C11_FailedSyncKeepsStore ==
    [][(SyncGithub /\ SyncFailed(sync')) => store' = store]_vars

C11_Witness ==
    /\ sync.op = "sync_github"
    /\ sync.err = <<"SchemaMismatch">>
    /\ appends = 1
    /\ store.kind = "json"
    /\ Len(store.val.v) = 3

SaveValues ==
    { JList(<<>>), JList(RemoteRuns), JList(<<JObj(SamplePass)>>), JList(<<JNum(7)>>),
      JObj([note |-> 1]), JNum(7), JNull }

CallSave ==
    /\ call.fn = "save_github_history_to_local"
    /\ ret = NoReturn
    /\ store' = save_github_history_to_local(store, call.data)
    /\ ret' = [fn |-> call.fn, out |-> [raised |-> FALSE]]
    /\ lastRead' = NoRead
    /\ UNCHANGED <<cases, results, i, pc, driverLog, clock, store0, appends,
                   sync, conc, call>>

InitReplace ==
    /\ cases = <<>>
    /\ results = <<>>
    /\ i = 1
    /\ pc = "done"
    /\ driverLog = <<>>
    /\ clock = 0
    /\ store \in InitStores
    /\ store0 = store
    /\ appends = 0
    /\ lastRead = NoRead
    /\ sync = NoSync
    /\ conc = NoWriters
    /\ call \in {[fn |-> "save_github_history_to_local", data |-> d] : d \in SaveValues}
    /\ ret = NoReturn

NextReplace == CallSave

SpecReplace == InitReplace /\ [][NextReplace]_vars

MaxRows == 2

IsSpace(c) == c \in {" ", "\t"}

(* str.strip(): the text between its first and its last non-blank character *)
Strip(t) ==
    LET inked == {n \in 1..Len(t) : ~IsSpace(t[n])}
    IN  IF inked = {} THEN <<>>
        ELSE SubSeq(t, CHOOSE n \in inked : \A m \in inked : n <= m,
                       CHOOSE n \in inked : \A m \in inked : m <= n)

(* the column names the loader asks for *)
KeyId == <<"i", "d">>

KeyEngine == <<"e", "n", "g", "i", "n", "e">>

KeyName == <<"n", "a", "m", "e">>

KeyUrl == <<"u", "r", "l">>

KeyNeedle ==
    <<"a", "s", "s", "e", "r", "t", "_", "t", "i", "t", "l", "e", "_",
      "c", "o", "n", "t", "a", "i", "n", "s">>

(* a dict keeps its keys in the order of their first insertion; a later    *)
(* value for a key that is present replaces the earlier one in place       *)
Put(data, k, v) ==
    IF \E n \in 1..Len(data) : data[n].k = k
    THEN [n \in 1..Len(data) |-> IF data[n].k = k THEN [k |-> k, v |-> v] ELSE data[n]]
    ELSE Append(data, [k |-> k, v |-> v])

RECURSIVE ZipFrom(_, _, _, _)
ZipFrom(headers, row, n, data) ==
    IF n > Len(headers) \/ n > Len(row) THEN data
    ELSE ZipFrom(headers, row, n + 1, Put(data, headers[n], row[n]))

(* dict(zip(headers, row)): stops at the shorter of the two *)
DictZip(headers, row) == ZipFrom(headers, row, 1, <<>>)

(* _get without the strip of the value *)
get_unstripped(data, key) ==
    LET hits == {n \in 1..Len(data) : LowerAll(Strip(data[n].k)) = LowerAll(Strip(key))}
    IN  IF hits = {} THEN <<>>
        ELSE data[CHOOSE n \in hits : \A m \in hits : n <= m].v

(* _get: the stripped value under the first key of the dict equal to `key` *)
(* but for case and surrounding blanks, "" when no key is; a cell of the   *)
(* sheet is a string, so str(v) is v                                       *)
_get(data, key) ==
    LET hits == {n \in 1..Len(data) : LowerAll(Strip(data[n].k)) = LowerAll(Strip(key))}
    IN  IF hits = {} THEN <<>>
        ELSE Strip(data[CHOOSE n \in hits : \A m \in hits : n <= m].v)

RECURSIVE LoadRows(_, _, _, _)
LoadRows(headers, values, n, acc) ==
    IF n > Len(values) THEN acc
    ELSE LET data == DictZip(headers, values[n])
             tc_id == _get(data, KeyId)
         IN  IF tc_id = <<>>
             THEN LoadRows(headers, values, n + 1, acc)
             ELSE LoadRows(headers, values, n + 1,
                           Append(acc, TestCase(tc_id, _get(data, KeyEngine),
                                                _get(data, KeyName), _get(data, KeyUrl),
                                                _get(data, KeyNeedle))))

(* load_cases_from_sheets: no sheet id gives no cases, a request the API   *)
(* refuses raises out of the function, no values give no cases, else the   *)
(* first row is the header and every later row with an id is a case        *)
load_cases_from_sheets(src) ==
    IF ~src.configured THEN [raised |-> FALSE, cases |-> <<>>]
    ELSE IF src.resp # "values" THEN [raised |-> TRUE, cases |-> <<>>]
    ELSE IF src.values = <<>> THEN [raised |-> FALSE, cases |-> <<>>]
    ELSE LET headers == [n \in 1..Len(src.values[1]) |-> Strip(src.values[1][n])]
         IN  [raised |-> FALSE, cases |-> LoadRows(headers, src.values, 2, <<>>)]

Sheet(configured, resp, values) ==
    [configured |-> configured, resp |-> resp, values |-> values]

HeaderRows ==
    { <<>>,
      <<KeyId>>,
      <<KeyId, KeyName>>,
      << <<" ", "I", "D", " ">>, KeyEngine >>,
      <<KeyName, KeyId>>,
      << KeyId, <<"I", "d">> >>,
      << KeyId, <<"i", "d", " ">> >>,
      <<KeyId, KeyEngine, KeyName, KeyUrl, KeyNeedle>> }

SheetRows ==
    { <<>>,
      << <<"a">> >>,
      << <<" ">> >>,
      << <<" ", "b", " ">> >>,
      << <<>>, <<"a">> >>,
      << <<" ">>, <<"a">> >>,
      << <<" ", "b", " ">>, <<"a">> >>,
      << <<"a">>, <<" ", "b", " ">>, <<"a">> >> }

Sheets ==
    { Sheet(FALSE, "values", << <<KeyId>>, << <<"a">> >> >>),
      Sheet(TRUE, "HttpError", <<>>),
      Sheet(TRUE, "values", <<>>) }
    \cup { Sheet(TRUE, "values", <<h>> \o rows) :
              h \in HeaderRows, rows \in SeqsUpTo(SheetRows, MaxRows) }

CallLoad ==
    /\ call.fn = "load_cases_from_sheets"
    /\ ret = NoReturn
    /\ ret' = [fn |-> call.fn, out |-> load_cases_from_sheets(call.src)]
    /\ UNCHANGED <<cases, results, i, pc, driverLog, clock, store, store0, appends,
                   lastRead, sync, conc, call>>

InitLoader ==
    /\ cases = <<>>
    /\ results = <<>>
    /\ i = 1
    /\ pc = "done"
    /\ driverLog = <<>>
    /\ clock = 0
    /\ store = Absent
    /\ store0 = store
    /\ appends = 0
    /\ lastRead = NoRead
    /\ sync = NoSync
    /\ conc = NoWriters
    /\ call \in {[fn |-> "load_cases_from_sheets", src |-> src] : src \in Sheets}
    /\ ret = NoReturn

NextLoader == CallLoad

SpecLoader == InitLoader /\ [][NextLoader]_vars

LoadReturned == ret.fn = "load_cases_from_sheets"

HasHeader ==
    call.src.configured /\ call.src.resp = "values" /\ call.src.values # <<>>

(* the columns of a row that the header names `key`, case and blanks aside *)
Columns(header, row, key) ==
    {p \in 1..Len(header) : p <= Len(row) /\ LowerAll(Strip(header[p])) = key}

(* the cell a row gives for `key`: none when no column is named so, else   *)
(* the rightmost cell under the name that the leftmost such column bears   *)
Resolved(header, row, key) ==
    LET cols == Columns(header, row, key)
    IN  IF cols = {} THEN <<>>
        ELSE LET first == CHOOSE p \in cols : \A q \in cols : p <= q
                 same == {p \in 1..Len(header) :
                             p <= Len(row) /\ Strip(header[p]) = Strip(header[first])}
             IN  Strip(row[CHOOSE p \in same : \A q \in same : q <= p])

Kept(header, rows) ==
    {r \in 1..Len(rows) : Resolved(header, rows[r], KeyId) # <<>>}

(* C14: a data row is dropped exactly when its id resolves to the empty    *)
(* string after trimming; the rows kept come out in sheet order, each with *)
(* the empty string for a column the row or the header does not have, and  *)
(* no error is raised.                                                     *)
C14_RowsKeptIffId ==
    (LoadReturned /\ HasHeader) =>
        LET header == call.src.values[1]
            rows == Tail(call.src.values)
            kept == Kept(header, rows)
            out == ret.out.cases
            Nth(k) == CHOOSE r \in kept : Cardinality({q \in kept : q <= r}) = k
        IN  /\ ~ret.out.raised
            /\ Len(out) = Cardinality(kept)
            /\ \A k \in 1..Len(out) :
                  LET row == rows[Nth(k)]
                  IN  /\ out[k] = TestCase(Resolved(header, row, KeyId),
                                           Resolved(header, row, KeyEngine),
                                           Resolved(header, row, KeyName),
                                           Resolved(header, row, KeyUrl),
                                           Resolved(header, row, KeyNeedle))
                      /\ out[k].id # <<>>
                      /\ Columns(header, row, KeyEngine) = {} => out[k].engine = <<>>
                      /\ Columns(header, row, KeyName) = {} => out[k].name = <<>>
                      /\ Columns(header, row, KeyUrl) = {} => out[k].url = <<>>
                      /\ Columns(header, row, KeyNeedle) = {} =>
                            out[k].assert_title_contains = <<>>

C14_Witness ==
    /\ LoadReturned
    /\ HasHeader
    /\ Len(call.src.values) = 3
    /\ Len(call.src.values[1]) = 5
    /\ call.src.values[2] = << <<" ">>, <<"a">> >>
    /\ call.src.values[3] = << <<" ", "b", " ">>, <<"a">> >>
    /\ ret.out.cases = << TestCase(<<"b">>, <<"a">>, <<>>, <<>>, <<>>) >>

(* C19: a sheet that gives no header row makes the load raise, and a sheet *)
(* with a header row and no data rows gives no cases and no error.         *)
C19_MissingHeaderIsError ==
    /\ (LoadReturned /\ call.src.configured /\ call.src.resp = "values"
           /\ call.src.values = <<>>) => ret.out.raised
    /\ (LoadReturned /\ HasHeader /\ Len(call.src.values) = 1) =>
           (~ret.out.raised /\ ret.out.cases = <<>>)

(* --------------------------- dashboard cards ---------------------------- *)

MaxPass == 23

MaxFail == 17

MaxError == 1

(* a Python float is a binary64: 53 significant bits *)
Precision == 53

(* A positive float is [m, e]: m its 53 bits, most significant first and   *)
(* m[1] = 1, e the exponent of the last bit; its value is m * 2^e.         *)
RECURSIVE BitsOf(_)
BitsOf(n) == IF n = 0 THEN <<>> ELSE Append(BitsOf(n \div 2), n % 2)

RECURSIVE Value(_)
Value(bits) ==
    IF bits = <<>> THEN 0
    ELSE 2 * Value(SubSeq(bits, 1, Len(bits) - 1)) + bits[Len(bits)]

(* bits + 1: the last 0 becomes 1 and the 1s after it become 0 *)
Increment(bits) ==
    LET zeros == {n \in 1..Len(bits) : bits[n] = 0}
    IN  IF zeros = {} THEN <<1>> \o [n \in 1..Len(bits) |-> 0]
        ELSE LET last == CHOOSE n \in zeros : \A k \in zeros : k <= n
             IN  [n \in 1..Len(bits) |->
                     IF n < last THEN bits[n] ELSE IF n = last THEN 1 ELSE 0]

(* round to nearest, ties to even: x carries the bit after the last kept   *)
(* one (guard) and whether anything non-zero follows it (sticky)           *)
RoundToNearestEven(x) ==
    IF x.guard = 1 /\ (x.sticky \/ x.m[Precision] = 1)
    THEN LET up == Increment(x.m)
         IN  IF Len(up) > Precision
             THEN [m |-> SubSeq(up, 1, Precision), e |-> x.e + 1]
             ELSE [m |-> up, e |-> x.e]
    ELSE [m |-> x.m, e |-> x.e]

(* long division: t \div d is the bit of weight 2^e *)
RECURSIVE DivideFrom(_, _, _, _)
DivideFrom(t, d, bits, e) ==
    IF Len(bits) = Precision
    THEN [m |-> bits, e |-> e + 1, guard |-> t \div d, sticky |-> (t % d) # 0]
    ELSE DivideFrom(2 * (t % d), d,
                    IF bits = <<>> /\ t \div d = 0 THEN <<>> ELSE Append(bits, t \div d),
                    e - 1)

(* p / denom for integers 0 < p <= denom: the float nearest the quotient *)
TrueDivide(p, denom) == RoundToNearestEven(DivideFrom(p, denom, <<>>, 0))

(* bits times c, from the last bit to the first, `done` the bits so far *)
RECURSIVE TimesFrom(_, _, _, _, _)
TimesFrom(bits, n, c, carry, done) ==
    IF n = 0 THEN BitsOf(carry) \o done
    ELSE TimesFrom(bits, n - 1, c, (bits[n] * c + carry) \div 2,
                   <<(bits[n] * c + carry) % 2>> \o done)

(* x * c for a float x and a small whole number c: the float nearest the   *)
(* exact product                                                           *)
Times(x, c) ==
    LET exact == TimesFrom(x.m, Len(x.m), c, 0, <<>>)
        over == Len(exact) - Precision
    IN  IF over = 0 THEN [m |-> exact, e |-> x.e]
        ELSE RoundToNearestEven(
                 [m |-> SubSeq(exact, 1, Precision), e |-> x.e + over,
                  guard |-> exact[Precision + 1],
                  sticky |-> \E k \in (Precision + 2)..Len(exact) : exact[k] = 1])

(* round(x) for a float 0 < x < 2^52: the nearest whole number, a half     *)
(* going to the even one                                                   *)
PyRound(x) ==
    LET whole_bits == Precision + x.e
    IN  IF whole_bits < 0 THEN 0
        ELSE LET whole == Value(SubSeq(x.m, 1, whole_bits))
                 half == x.m[whole_bits + 1]
                 rest == \E k \in (whole_bits + 2)..Precision : x.m[k] = 1
             IN  IF half = 0 THEN whole
                 ELSE IF rest \/ whole % 2 = 1 THEN whole + 1
                 ELSE whole

(* int(round((p / denom) * 100)) if denom else 0 *)
Rate(p, denom) ==
    IF denom = 0 \/ p = 0 THEN 0
    ELSE PyRound(Times(TrueDivide(p, denom), 100))

(* s.get(key, 0) or 0 *)
GetOrZero(s, key) == IF key \in DOMAIN s THEN s[key] ELSE 0

(* calc_cards(latest_run, cases) *)
calc_cards(latest_run, cases_) ==
    LET counted == /\ latest_run # None
                   /\ IsDict(latest_run[1])
                   /\ HasKey(latest_run[1], "summary")
        s == IF counted THEN latest_run[1].v.summary ELSE <<>>
        p == GetOrZero(s, "pass")
        f == GetOrZero(s, "fail")
        e == GetOrZero(s, "error")
        total == Len(cases_)
    IN  [total |-> total, pass |-> p, fail |-> f, new |-> total,
         rate |-> Rate(p, p + f + e)]

Summaries ==
    { [pass |-> p, fail |-> f, error |-> e] :
          p \in 0..MaxPass, f \in 0..MaxFail, e \in 0..MaxError }

LatestRuns ==
    { None, Some(JNum(7)), Some(JObj([note |-> 1])),
      Some(JObj([executed_at |-> 0, summary |-> [pass |-> 1, fail |-> 7], results |-> <<>>])) }
    \cup { Some(JObj([executed_at |-> 0, summary |-> s, results |-> <<>>])) : s \in Summaries }

CallCards ==
    /\ call.fn = "calc_cards"
    /\ ret = NoReturn
    /\ ret' = [fn |-> call.fn, out |-> calc_cards(call.latest_run, call.cases)]
    /\ UNCHANGED <<cases, results, i, pc, driverLog, clock, store, store0, appends,
                   lastRead, sync, conc, call>>

InitCards ==
    /\ cases = <<>>
    /\ results = <<>>
    /\ i = 1
    /\ pc = "done"
    /\ driverLog = <<>>
    /\ clock = 0
    /\ store = Absent
    /\ store0 = store
    /\ appends = 0
    /\ lastRead = NoRead
    /\ sync = NoSync
    /\ conc = NoWriters
    /\ call \in {[fn |-> "calc_cards", latest_run |-> r, cases |-> cs] :
                    r \in LatestRuns, cs \in SeqsUpTo({SampleCase}, MaxCases)}
    /\ ret = NoReturn

NextCards == CallCards

SpecCards == InitCards /\ [][NextCards]_vars

(* the whole number nearest a / b, a half going to the even one *)
RoundHalfEven(a, b) ==
    LET q == a \div b
        r == a % b
    IN  IF 2 * r > b THEN q + 1
        ELSE IF 2 * r < b THEN q
        ELSE IF q % 2 = 0 THEN q ELSE q + 1

(* C15: the cards are total = number of cases, pass and fail of the latest *)
(* run's summary, new = total and rate = round(100 * pass / (pass + fail + *)
(* error)), with rate = 0 for a zero denominator or no latest run.         *)
C15_Cards ==
    ret.fn = "calc_cards" =>
        LET run == call.latest_run
            counted == run # <<>> /\ run[1].t = "dict" /\ "summary" \in DOMAIN run[1].v
            field(k) == IF counted /\ k \in DOMAIN run[1].v.summary
                        THEN run[1].v.summary[k] ELSE 0
            denom == field("pass") + field("fail") + field("error")
        IN  /\ ret.out.total = Len(call.cases)
            /\ ret.out.new = ret.out.total
            /\ ret.out.pass = field("pass")
            /\ ret.out.fail = field("fail")
            /\ ret.out.rate = IF denom = 0 THEN 0
                              ELSE RoundHalfEven(100 * field("pass"), denom)

(* ------------------------ writers side by side -------------------------- *)

MaxWriters == 2

Writers == 1..MaxWriters

(* a writer that has not begun; `existing` is the list an append has read *)
Idle == [kind |-> "none", pc |-> "idle", existing |-> <<>>]

(* the run record writer x appends *)
WriterRecord(x) == RunRecord(x, <<SamplePass>>)

Busy(x) == conc.w[x].pc \notin {"idle", "done"}

(* writer x moves on; a writer that begins while another is at work makes  *)
(* the run an overlapped one, and a writer that ends is noted as finished  *)
Moved(x, kind, pc_, existing) ==
    [conc EXCEPT
        !.w[x] = [kind |-> kind, pc |-> pc_, existing |-> existing],
        !.overlapped = @ \/ (conc.w[x].pc = "idle" /\ \E y \in Writers \ {x} : Busy(y)),
        !.finished = IF pc_ = "done" THEN Append(@, x) ELSE @]

(* what the writers leave alone *)
aside ==
    <<cases, results, i, pc, driverLog, clock, store0, appends, lastRead, sync, call, ret>>

(* a write that drops the list read and keeps the new record only *)
WriteBackOnlyNew(existing, run_record) == JsonFile(JList(<<run_record>>))

(* existing.append(run_record), then the whole list is written *)
WriteBack(existing, run_record) == JsonFile(JList(Append(existing, run_record)))

(* ensure_history_file: `if not HISTORY_FILE.exists()` *)
EnsureExists(x) ==
    /\ conc.w[x].pc = "idle"
    /\ conc' = Moved(x, "append", IF store.kind = "absent" THEN "create" ELSE "read", <<>>)
    /\ UNCHANGED <<store, aside>>

(* ensure_history_file: write_text("[]") *)
EnsureCreate(x) ==
    /\ conc.w[x].pc = "create"
    /\ store' = JsonFile(JList(<<>>))
    /\ conc' = Moved(x, "append", "read", <<>>)
    /\ UNCHANGED aside

(* the file is read and parsed, and the old format is reset *)
ReadExisting(x) ==
    /\ conc.w[x].pc = "read"
    /\ conc' = Moved(x, "append", "write", Existing(store))
    /\ UNCHANGED <<store, aside>>

(* write_text opens the file for writing, which empties it *)
WriteOpen(x) ==
    /\ conc.w[x].pc = "write"
    /\ store' = Malformed
    /\ conc' = Moved(x, "append", "dump", conc.w[x].existing)
    /\ UNCHANGED aside

(* write_text writes the text of the list *)
WriteText(x) ==
    /\ conc.w[x].pc = "dump"
    /\ conc.w[x].kind = "append"
    /\ store' = WriteBack(conc.w[x].existing, WriterRecord(x))
    /\ conc' = Moved(x, "append", "done", conc.w[x].existing)
    /\ UNCHANGED aside

(* save_github_history_to_local: open(HISTORY_PATH, "w") empties the file *)
SaveOpen(x) ==
    /\ conc.w[x].pc = "idle"
    /\ store' = Malformed
    /\ conc' = Moved(x, "sync", "dump", <<>>)
    /\ UNCHANGED aside

(* save_github_history_to_local: json.dump of the fetched list *)
SaveDump(x) ==
    /\ conc.w[x].pc = "dump"
    /\ conc.w[x].kind = "sync"
    /\ store' = save_github_history_to_local(store, JList(RemoteRuns))
    /\ conc' = Moved(x, "sync", "done", <<>>)
    /\ UNCHANGED aside

WriterStores ==
    { Absent, Malformed,
      JsonFile(JList(<<>>)),
      JsonFile(JList(<<RunRecord(0, <<SamplePass>>)>>)),
      JsonFile(JList(<<JObj(SamplePass)>>)) }

InitWriters ==
    /\ cases = <<>>
    /\ results = <<>>
    /\ i = 1
    /\ pc = "done"
    /\ driverLog = <<>>
    /\ clock = 0
    /\ store \in WriterStores
    /\ store0 = store
    /\ appends = 0
    /\ lastRead = NoRead
    /\ sync = NoSync
    /\ conc = [op |-> "writers", w |-> [x \in Writers |-> Idle],
               overlapped |-> FALSE, finished |-> <<>>]
    /\ call = NoCall
    /\ ret = NoReturn

NextWriters ==
    \/ \E x \in Writers : EnsureExists(x)
    \/ \E x \in Writers : EnsureCreate(x)
    \/ \E x \in Writers : ReadExisting(x)
    \/ \E x \in Writers : WriteOpen(x)
    \/ \E x \in Writers : WriteText(x)
    \/ \E x \in Writers : SaveOpen(x)
    \/ \E x \in Writers : SaveDump(x)

SpecWriters == InitWriters /\ [][NextWriters]_vars

Quiescent == \A x \in Writers : ~Busy(x)

Done(x) == conc.w[x].pc = "done"

(* the records writer x wrote *)
Wrote(x) ==
    IF conc.w[x].kind = "append" THEN {WriterRecord(x)}
    ELSE {RemoteRuns[k] : k \in 1..Len(RemoteRuns)}

InStore(r) ==
    /\ store.kind = "json"
    /\ store.val.t = "list"
    /\ \E k \in 1..Len(store.val.v) : store.val.v[k] = r

Place(x) == CHOOSE k \in 1..Len(conc.finished) : conc.finished[k] = x

(* a sync replace ended after writer x did *)
ReplacedAfter(x) ==
    \E y \in Writers :
        Done(y) /\ conc.w[y].kind = "sync" /\ Place(y) > Place(x)

(* the statement as given: in a run without overlap every record written   *)
(* by a finished writer is in the file                                     *)
C20_SequentialLosesNothing ==
    (~conc.overlapped /\ Quiescent) =>
        \A x \in Writers : Done(x) => \A r \in Wrote(x) : InStore(r)

(* C20: when writers run strictly one after another, every record a        *)
(* finished writer wrote is in the file unless a sync replace ended after  *)
(* that writer; with overlapping writers a finished append's record can be *)
(* missing (the witness).                                                  *)
C20_SequentialKeepsUnlessReplaced ==
    (~conc.overlapped /\ Quiescent) =>
        \A x \in Writers :
            (Done(x) /\ ~ReplacedAfter(x)) => \A r \in Wrote(x) : InStore(r)

(* two overlapping appends, both ended, and a record of one is not there *)
C20_Witness ==
    /\ conc.overlapped
    /\ \A x \in Writers : Done(x) /\ conc.w[x].kind = "append"
    /\ \E x \in Writers : ~InStore(WriterRecord(x))
    /\ store.kind = "json"

(* an append overlapping a sync replace: the synced runs are not there *)
LostSyncedRuns ==
    /\ conc.overlapped
    /\ \A x \in Writers : Done(x)
    /\ \E x \in Writers : conc.w[x].kind = "sync" /\ \E r \in Wrote(x) : ~InStore(r)
    /\ \E x \in Writers : conc.w[x].kind = "append" /\ InStore(WriterRecord(x))

====
